---- MODULE Spec2Model ----
(***************************************************************************)
(* SlurmManager (src/slurm_manager/slurm.py): a bookkeeping layer over the *)
(* Slurm commands sbatch / scontrol / scancel.  The state is the shared    *)
(* sqlite table `jobs`, the scheduler's own view of each job id, and a     *)
(* report of the last public call (how it ended, which commands it ran,    *)
(* what it appended to the two log files).                                 *)
(*                                                                         *)
(* A public call is not one step: it waits in one subprocess per scontrol, *)
(* sbatch or scancel call.  The command does its work at the scheduler and *)
(* exits some time later; subprocess.run returns only then, with what the  *)
(* command had read.  The scheduler and other processes move in between,   *)
(* so each action below is one stretch of a call: up to the moment a       *)
(* command has done its work, or from there to the next such moment.       *)
(***************************************************************************)
EXTENDS Integers, Sequences, FiniteSets, TLC

\* ------------------------------------------------------------------ bounds
\* Job ids the scheduler hands out before it stops accepting submissions.
MaxJobs == 2
\* Rows the jobs table holds at most.
MaxRows == 2
\* SlurmManager objects one process constructs at most.
MaxManagers == 2

\* ------------------------------------------------------------ input sets
\* Directories managers are constructed on (already absolute).
ParentDirs == {"/jobs/a", "/jobs/b"}
\* The process's current directory, joined in front of a relative path.
CwdJoin == [p \in {"b"} |-> "/jobs/b"]
\* Symbolic links of the file system and the directories they lead to.
Links == [p \in {"/jobs/latest"} |-> "/jobs/a"]
\* Paths a caller passes to submit_job: a relative one and a link.
SubmitPaths == {"b", "/jobs/latest"}
\* Labels a caller passes as db_jobname.
JobNames == {"relax"}
\* Job ids the scheduler hands out, in this order: "1", "2", ...
JobIdOf(n) == ToString(n)
JobIds == {JobIdOf(n) : n \in 1..MaxJobs}
\* JobState tokens the scheduler reports.
SlurmStates == {"PENDING", "RUNNING", "CANCELLED"}
\* The code takes any \S+ token as the state, so one that is not in upper
\* case is stored as it comes.
CaseStates == {"RUNNING", "Running"}
\* Status filters a caller passes to job_table (NoFilter: argument omitted).
NoFilter == "None"
Filters == {NoFilter, "running"}

\* Python's None.
NoneVal == "None"

\* stderr texts of the Slurm commands.
ErrInvalidJobId == "slurm_load_jobs error: Invalid job id specified"
ErrController == "slurm_load_jobs error: Unable to contact slurm controller (connect failure)"
ErrKill == "scancel: error: Kill job error on job id: Invalid job id specified"

\* ------------------------------------------------ the scheduler's view
\* What the scheduler answers about one job id: no such job ("invalid"), a
\* query that cannot be answered ("error"), or the job's state ("ok").  The
\* directory a job was submitted from stays with its id.
Answers == {[kind |-> "invalid", state |-> ""], [kind |-> "error", state |-> ""]}
             \cup [kind : {"ok"}, state : SlurmStates]
CaseAnswers == [kind : {"ok"}, state : CaseStates]
SlurmJob(answer, workdir) ==
  [kind |-> answer.kind, state |-> answer.state, workdir |-> workdir]
NoJob == [kind |-> "invalid", state |-> "", workdir |-> ""]

\* Operating-system processes that use SlurmManager on the same home
\* directory (one database, one global log).
Procs == {1, 2}

\* jobs:   the committed rows of the sqlite table, in id order
\* slurm:  the scheduler's answer for each job id
\* issued: how many job ids the scheduler has handed out
\* last:   the report of the public call that ended in the step just taken
\*         (NoCall when none did)
\* inflight: for each process, the public call it is in the middle of
\* made:   for each process and directory, how many SlurmManager objects
\*         the process has constructed on it (each adds a file handler to
\*         the directory's logger and one to the global logger)
VARIABLES jobs, slurm, issued, last, inflight, made
vars == <<jobs, slurm, issued, last, inflight, made>>

\* ------------------------------------------------------------- helpers
Min(S) == CHOOSE x \in S : \A y \in S : x <= y

\* The process of the specifications in which one process runs alone.
Main == Min(Procs)

\* str.upper() on the status filters and tokens of the model.
Upper(s) ==
  CASE s = "running" -> "RUNNING"
    [] s = "Running" -> "RUNNING"
    [] s = "pending" -> "PENDING"
    [] s = "cancelled" -> "CANCELLED"
    [] s = "unknown" -> "UNKNOWN"
    [] OTHER -> s

\* Path(path).absolute(): a relative path is joined to the current directory.
Absolute(path) == IF path \in DOMAIN CwdJoin THEN CwdJoin[path] ELSE path

\* re.search(marker + '=(...)', output): the value after the first
\* occurrence of the marker, None when the marker is absent.
Search(output, marker) ==
  LET hits == {i \in 1..Len(output) : output[i].key = marker}
  IN IF hits = {} THEN NoneVal ELSE output[Min(hits)].val

\* What subprocess.run returns (a CompletedProcess): exit code, stdout as
\* its fields, and stderr.
Completed(returncode, stdout, stderr) ==
  [returncode |-> returncode, stdout |-> stdout, stderr |-> stderr]

\* No command has run yet.
NoResult == Completed(0, <<>>, "")

\* scontrol -dd show job <jobid>: stdout as its KEY=value fields, and stderr.
\* (A job id the scheduler never handed out is one it does not know.)
Scontrol(sl, jobid) ==
  LET j == IF jobid \in DOMAIN sl THEN sl[jobid] ELSE NoJob
  IN CASE j.kind = "invalid" -> Completed(1, <<>>, ErrInvalidJobId)
       [] j.kind = "error" -> Completed(1, <<>>, ErrController)
       [] OTHER -> Completed(0, << [key |-> "JobId", val |-> jobid],
                                   [key |-> "JobState", val |-> j.state],
                                   [key |-> "WorkDir", val |-> j.workdir] >>, "")

\* parse_scontrol_output written as line 120 treats sbatch's output: a marker
\* that is absent yields None instead of raising.
parse_scontrol_output_lenient(output) ==
  [raised |-> "none", jobid |-> Search(output, "JobId"),
   status |-> Search(output, "JobState"), workingdir |-> Search(output, "WorkDir")]

\* parse_scontrol_output: .group(1) of a failed search raises AttributeError.
parse_scontrol_output(output) ==
  LET j == Search(output, "JobId")
      s == Search(output, "JobState")
      w == Search(output, "WorkDir")
  IN IF j = NoneVal \/ s = NoneVal \/ w = NoneVal
     THEN [raised |-> "AttributeError", jobid |-> NoneVal, status |-> NoneVal,
           workingdir |-> NoneVal]
     ELSE [raised |-> "none", jobid |-> j, status |-> s, workingdir |-> w]

\* One row of the jobs table.
Row(id, parent_dir, jobid, jobname, status, workingdir) ==
  [id |-> id, parent_dir |-> parent_dir, jobid |-> jobid, jobname |-> jobname,
   status |-> status, workingdir |-> workingdir]

\* insert_job with jobid and db_jobname exchanged in the VALUES tuple.
insert_job_swapped(tbl, parent_dir, jobid, db_jobname, status, workingdir) ==
  LET id == IF tbl = <<>> THEN 1 ELSE tbl[Len(tbl)].id + 1
  IN Append(tbl, Row(id, parent_dir, db_jobname, jobid, status, workingdir))

\* insert_job under a uniqueness constraint on (parent_dir, workingdir,
\* active status): a second active row for a working directory is refused.
insert_job_unique_active(tbl, parent_dir, jobid, db_jobname, status, workingdir) ==
  LET id == IF tbl = <<>> THEN 1 ELSE tbl[Len(tbl)].id + 1
      taken == \E i \in 1..Len(tbl) : /\ tbl[i].parent_dir = parent_dir
                                       /\ tbl[i].workingdir = workingdir
                                       /\ tbl[i].status \in {"RUNNING", "PENDING"}
  IN IF taken /\ status \in {"RUNNING", "PENDING"}
     THEN tbl
     ELSE Append(tbl, Row(id, parent_dir, jobid, db_jobname, status, workingdir))

\* INSERT INTO jobs: INTEGER PRIMARY KEY takes the largest id plus one.
insert_job(tbl, parent_dir, jobid, db_jobname, status, workingdir) ==
  LET id == IF tbl = <<>> THEN 1 ELSE tbl[Len(tbl)].id + 1
  IN Append(tbl, Row(id, parent_dir, jobid, db_jobname, status, workingdir))

\* The update of refresh_job_status written to purge what the scheduler has
\* forgotten: a row that would become UNKNOWN is deleted instead.
UpdateStatusPurging(tbl, new_status, jobid, parent_dir) ==
  IF new_status = "UNKNOWN"
  THEN SelectSeq(tbl, LAMBDA r : ~(r.jobid = jobid /\ r.parent_dir = parent_dir))
  ELSE [i \in 1..Len(tbl) |->
          IF tbl[i].jobid = jobid /\ tbl[i].parent_dir = parent_dir
          THEN [tbl[i] EXCEPT !.status = new_status]
          ELSE tbl[i]]

\* The update of refresh_job_status without `jobid=?` in its WHERE clause:
\* every row of the directory takes the status of the job just queried.
UpdateStatusAllOwned(tbl, new_status, jobid, parent_dir) ==
  [i \in 1..Len(tbl) |->
     IF tbl[i].parent_dir = parent_dir
     THEN [tbl[i] EXCEPT !.status = new_status]
     ELSE tbl[i]]

\* UPDATE jobs SET status=? WHERE jobid=? AND parent_dir=?
UpdateStatus(tbl, new_status, jobid, parent_dir) ==
  [i \in 1..Len(tbl) |->
     IF tbl[i].jobid = jobid /\ tbl[i].parent_dir = parent_dir
     THEN [tbl[i] EXCEPT !.status = new_status]
     ELSE tbl[i]]

\* SELECT ... WHERE parent_dir=...: the owner's rows in id order.
\* The SELECTs without their WHERE parent_dir=... clause.
IsOwnerOfAny(r, parent_dir) == TRUE
IsOwner(r, parent_dir) == r.parent_dir = parent_dir
OwnerRows(tbl, parent_dir) == SelectSeq(tbl, LAMBDA r : IsOwner(r, parent_dir))


\* ------------------------------------------------ refresh_job_status
\* job_table without its first line (line 139): nothing is fetched, so
\* nothing is refreshed.
FetchNoJobIds(tbl, parent_dir) == <<>>

\* Lines 166-168: the job ids of the directory's rows, in id order.
FetchJobIds(tbl, parent_dir) ==
  LET owned == OwnerRows(tbl, parent_dir)
  IN [i \in 1..Len(owned) |-> owned[i].jobid]

\* Lines 173-178, on what scontrol returned: the status the row is to get,
\* or the exception the pass ends with.
NewStatus(result) ==
  IF result.stderr = ErrInvalidJobId
  THEN [raised |-> "none", status |-> "UNKNOWN"]
  ELSE [raised |-> parse_scontrol_output(result.stdout).raised,
        status |-> parse_scontrol_output(result.stdout).status]

\* The UPDATEs of one refresh (line 181), in the order they were executed.
RECURSIVE ApplyUpdates(_, _, _)
ApplyUpdates(tbl, updates, parent_dir) ==
  IF updates = <<>>
  THEN tbl
  ELSE ApplyUpdates(UpdateStatus(tbl, updates[1].status, updates[1].jobid, parent_dir),
                    Tail(updates), parent_dir)

\* Line 183: conn.commit() after the loop makes the UPDATEs visible.
Commit(tbl, updates, parent_dir) == ApplyUpdates(tbl, updates, parent_dir)

\* A connection in autocommit mode: each UPDATE is visible as soon as it is
\* executed, so an exception leaves the UPDATEs made so far in the table.
Autocommit(tbl, updates, parent_dir) == ApplyUpdates(tbl, updates, parent_dir)

\* An exception leaves the `with` block of line 165, which rolls the pending
\* UPDATEs back: the table stays as committed.
Rollback(tbl, updates, parent_dir) == tbl

\* ---------------------------------------------------------- job_table
\* The SELECT of job_table with the status compared as the caller wrote it.
ListingVerbatimFilter(tbl, parent_dir, status) ==
  IF status = NoFilter
  THEN OwnerRows(tbl, parent_dir)
  ELSE SelectSeq(OwnerRows(tbl, parent_dir), LAMBDA x : x.status = status)

\* Lines 140-144: the SELECT of job_table, filtered by the upper-cased
\* status when one is given.
Listing(tbl, parent_dir, status) ==
  IF status = NoFilter
  THEN OwnerRows(tbl, parent_dir)
  ELSE SelectSeq(OwnerRows(tbl, parent_dir), LAMBDA x : x.status = Upper(status))

\* ------------------------------------------------------- the call report
\* One logging call: level, message and the value the message carries.
Entry(level, event, detail) == [level |-> level, event |-> event, detail |-> detail]

\* The lines a logger writes for its logging calls when it carries k file
\* handlers for the file: every call is written once per handler.
Lines(calls, k) == [i \in 1..(Len(calls) * k) |-> calls[((i - 1) \div k) + 1]]

\* rows is the DataFrame job_table returned (to its caller, or to submit_job
\* at line 104); updates the statuses the refresh of the call computed;
\* returncode the exit code of the call's scancel.
Report(op, parent_dir, path, jobname, resubmit, jobid, filter, exit, raised, sbatch, scontrol, scancel, local, global) ==
  [op |-> op, parent_dir |-> parent_dir, path |-> path, jobname |-> jobname,
   resubmit |-> resubmit, jobid |-> jobid, filter |-> filter, exit |-> exit,
   raised |-> raised, sbatch |-> sbatch, scontrol |-> scontrol,
   scancel |-> scancel, local |-> local, global |-> global, rows |-> <<>>,
   updates |-> <<>>, returncode |-> 0, proc |-> 0]

\* No public call ended in the step just taken.
NoCall == Report("none", "", "", "", FALSE, "", NoFilter, "return", "none",
                 0, 0, 0, <<>>, <<>>)

\* A process that is not inside a public call.  Inside one, pc tells how far
\* the call has come and result holds what the command the call is waiting
\* for has read or done at the scheduler (subprocess.run returns it when the
\* command exits).
Idle == [pc |-> "idle", op |-> "none", parent_dir |-> "", path |-> "",
         jobname |-> "", resubmit |-> FALSE, filter |-> NoFilter,
         jobids |-> <<>>, updates |-> <<>>, scontrol |-> 0, local |-> <<>>,
         rows |-> <<>>, jobid |-> "", result |-> NoResult]

\* File handlers on the loggers of process p: the logger of a directory has
\* one per manager constructed on it, the global logger one per manager.
LocalHandlers(p, parent_dir) == made[p][parent_dir]
GlobalHandlers(p) == made[p]["/jobs/a"] + made[p]["/jobs/b"]

\* The report of a call of process p as it ends: its logging calls as the
\* lines they leave in the two files.
Ended(p, report) ==
  [report EXCEPT !.local = Lines(@, LocalHandlers(p, report.parent_dir)),
                 !.global = Lines(@, GlobalHandlers(p)),
                 !.proc = p]

\* Another process has executed an UPDATE in a refresh it has not yet
\* committed: it holds the database's write lock, and a write of p waits
\* (5 s by default) and then raises sqlite3.OperationalError.
HoldsLock(q) == inflight[q].pc \in {"refresh", "queried"} /\ inflight[q].updates # <<>>
Locked(p) == \E q \in Procs \ {p} : HoldsLock(q)

\* Rows that calls whose sbatch was accepted are about to insert.
Inserting ==
  Cardinality({q \in Procs : \/ inflight[q].pc \in {"shown", "insert"}
                             \/ /\ inflight[q].pc = "submitted"
                                /\ inflight[q].result.stdout # <<>>})

\* An empty table, a scheduler that has handed out no job id, and the
\* managers `managers` constructed.
Start(managers) ==
  /\ jobs = <<>>
  /\ slurm = [j \in JobIds |-> NoJob]
  /\ issued = 0
  /\ last = NoCall
  /\ inflight = [p \in Procs |-> Idle]
  /\ made = managers

\* One process has constructed one manager, on /jobs/a.
Init == Start([p \in Procs |-> [d \in ParentDirs |->
                 IF p = Main /\ d = "/jobs/a" THEN 1 ELSE 0]])

\* SlurmManager(parent_dir) in process p (lines 26-60): the table is created
\* if it is not there, and the loggers get one more file handler each.
Construct(p, parent_dir) ==
  /\ inflight[p].pc = "idle"
  /\ GlobalHandlers(p) < MaxManagers
  /\ made' = [made EXCEPT ![p][parent_dir] = @ + 1]
  /\ last' = NoCall
  /\ UNCHANGED <<jobs, slurm, issued, inflight>>

\* ------------------------------------------------ the steps of a call
\* The call of process p goes on after its refresh has committed: a
\* refresh_job_status ends, a job_table or submit_job goes on to its SELECT.
AfterRefresh(p, c) ==
  IF c.op = "refresh_job_status"
  THEN /\ inflight' = [inflight EXCEPT ![p] = Idle]
       /\ last' = Ended(p, [Report(c.op, c.parent_dir, "", "", FALSE, "", NoFilter,
                                   "return", "none", 0, c.scontrol, 0, <<>>, <<>>)
                            EXCEPT !.updates = c.updates])
  ELSE /\ inflight' = [inflight EXCEPT ![p] = [c EXCEPT !.pc = "select"]]
       /\ last' = NoCall

\* The call of process p ends with an exception.
Raises(p, c, raised, sbatch) ==
  /\ inflight' = [inflight EXCEPT ![p] = Idle]
  /\ last' = Ended(p, [Report(c.op, c.parent_dir, c.path, c.jobname, c.resubmit,
                              c.jobid, c.filter, "raise", raised, sbatch,
                              c.scontrol, 0, c.local, <<>>)
                       EXCEPT !.rows = c.rows, !.updates = c.updates])

\* Lines 165-168, the start of a refresh: the job ids are fetched.  With no
\* row to refresh the loop is empty and the commit has nothing to do.
Begin(p, parent_dir, op, path, db_jobname, resubmit, status) ==
  /\ LET c == [Idle EXCEPT !.pc = "refresh", !.op = op, !.parent_dir = parent_dir,
                           !.path = path, !.jobname = db_jobname,
                           !.resubmit = resubmit, !.filter = status,
                           !.jobids = FetchJobIds(jobs, parent_dir)]
     IN IF c.jobids = <<>>
        THEN AfterRefresh(p, c)
        ELSE inflight' = [inflight EXCEPT ![p] = c] /\ last' = NoCall
  /\ UNCHANGED <<jobs, slurm, issued, made>>

\* refresh_job_status() is called on a manager of parent_dir in process p.
RefreshJobStatus(p, parent_dir) ==
  /\ inflight[p].pc = "idle"
  /\ LocalHandlers(p, parent_dir) > 0
  /\ Begin(p, parent_dir, "refresh_job_status", "", "", FALSE, NoFilter)

\* job_table(status) is called: it starts with refresh_job_status (line 138).
JobTable(p, parent_dir, status) ==
  /\ inflight[p].pc = "idle"
  /\ LocalHandlers(p, parent_dir) > 0
  /\ Begin(p, parent_dir, "job_table", "", "", FALSE, status)

\* submit_job(path, db_jobname, resubmit) is called: it starts with
\* job_table() (line 104).
SubmitJob(p, parent_dir, path, db_jobname, resubmit) ==
  /\ inflight[p].pc = "idle"
  /\ LocalHandlers(p, parent_dir) > 0
  /\ Begin(p, parent_dir, "submit_job", path, db_jobname, resubmit, NoFilter)

\* Line 181 and, after the last job id, line 183: the UPDATE of one pass,
\* and the commit when the loop is over.
Update(p, c, new_status) ==
  LET jobid == c.jobids[Len(c.updates) + 1]
      d == [c EXCEPT !.updates = Append(@, [jobid |-> jobid, status |-> new_status]),
                     !.result = NoResult, !.pc = "refresh"]
  IN IF Len(d.updates) = Len(d.jobids)
     THEN /\ jobs' = Commit(jobs, d.updates, d.parent_dir)
          /\ AfterRefresh(p, d)
     ELSE /\ jobs' = jobs
          /\ inflight' = [inflight EXCEPT ![p] = d]
          /\ last' = NoCall

\* Lines 170-172, the start of one pass of the loop: scontrol is started
\* for the next job id and reads the scheduler as it stands now; for a job
\* id that is None subprocess.run raises TypeError before any process is
\* started.
Query(p) ==
  /\ inflight[p].pc = "refresh"
  /\ \E c \in {inflight[p]} :
       \E jobid \in {c.jobids[Len(c.updates) + 1]} :
         IF jobid = NoneVal
         THEN /\ jobs' = Rollback(jobs, c.updates, c.parent_dir)
              /\ Raises(p, c, "TypeError", 0)
         ELSE /\ jobs' = jobs
              /\ inflight' = [inflight EXCEPT ![p] =
                                [c EXCEPT !.pc = "queried", !.scontrol = @ + 1,
                                          !.result = Scontrol(slurm, jobid)]]
              /\ last' = NoCall
  /\ UNCHANGED <<slurm, issued, made>>

\* Lines 172-181, the rest of the pass: scontrol has exited, and the row is
\* updated to what it had read; when another process holds the write lock
\* the UPDATE has to wait.
RefreshStep(p) ==
  /\ inflight[p].pc = "queried"
  /\ \E c \in {inflight[p]} :
       \E s \in {NewStatus(c.result)} :
         IF s.raised # "none"
         THEN /\ jobs' = Rollback(jobs, c.updates, c.parent_dir)
              /\ Raises(p, [c EXCEPT !.result = NoResult], s.raised, 0)
         ELSE IF Locked(p)
         THEN /\ jobs' = jobs
              /\ inflight' = [inflight EXCEPT ![p] = [c EXCEPT !.pc = "update"]]
              /\ last' = NoCall
         ELSE Update(p, c, s.status)
  /\ UNCHANGED <<slurm, issued, made>>

\* --------------------------------------------------------------- submit
\* What sbatch does with a submission: it rejects it, or accepts it, and the
\* scheduler then has the new job as `answer` (queued; what it answers when
\* asked later is up to SlurmStep).
SbatchAnswers ==
  {[accepted |-> FALSE, answer |-> [kind |-> "invalid", state |-> ""]],
   [accepted |-> TRUE, answer |-> [kind |-> "ok", state |-> "PENDING"]]}

\* sbatch submit.sh: stdout carries "Submitted batch job <id>" on acceptance,
\* the id being the next one the scheduler hands out.
SbatchStdout(sb, n) ==
  IF sb.accepted THEN << [key |-> "Submitted batch job", val |-> JobIdOf(n + 1)] >> ELSE <<>>

\* The directory the scheduler records for a job submitted with cwd=abs_path:
\* the directory sbatch finds itself in, with symbolic links resolved.
WorkDirOf(abs_path) == IF abs_path \in DOMAIN Links THEN Links[abs_path] ELSE abs_path

\* The scheduler after sbatch has answered.
AfterSbatch(sl, n, sb, abs_path) ==
  IF sb.accepted
  THEN [sl EXCEPT ![JobIdOf(n + 1)] = SlurmJob(sb.answer, WorkDirOf(abs_path))]
  ELSE sl

\* The status test with PENDING left out of the list.
IsActiveRunningOnly(status) == status \in {"RUNNING"}

\* matching_jobs['status'].isin(["RUNNING", "PENDING"])
IsActive(status) == status \in {"RUNNING", "PENDING"}

\* The matching rows taken newest first (as with ORDER BY id DESC).
MatchingJobsNewestFirst(rows, abs_path) ==
  LET m == SelectSeq(rows, LAMBDA r : r.workingdir = abs_path)
  IN [i \in 1..Len(m) |-> m[Len(m) + 1 - i]]

\* existing_jobs[existing_jobs['workingdir'] == str(abs_path)]
MatchingJobs(rows, abs_path) == SelectSeq(rows, LAMBDA r : r.workingdir = abs_path)

\* matching_jobs[matching_jobs['status'].isin([...])]
ActiveJobs(rows) == SelectSeq(rows, LAMBDA r : IsActive(r.status))

\* The early return of submit_job: an active job for the path, resubmit off.
SkipsSubmission(active_jobs, resubmit) == active_jobs # <<>> /\ ~resubmit

\* The informational warning: jobs for the path, none active, one cancelled.
CancelledWarning(matching_jobs, active_jobs, abs_path) ==
  IF /\ matching_jobs # <<>>
     /\ active_jobs = <<>>
     /\ \E i \in 1..Len(matching_jobs) : matching_jobs[i].status = "CANCELLED"
  THEN << Entry("WARNING", "was previously cancelled", abs_path) >>
  ELSE <<>>

\* Line 125 with str(abs_path) in the place of job_details["workingdir"].
StoredWorkDirFromCaller(job_details, abs_path) == abs_path

\* Line 125: the working directory that goes into the row is the WorkDir of
\* scontrol's answer, not the path the caller gave.
StoredWorkDir(job_details, abs_path) == job_details.workingdir

\* Lines 111-113 without the `return`: the warning is logged and submit_job
\* goes on to sbatch.
WarnAndContinue(returned, continued) == continued

\* Lines 111-113: the warning is followed by `return`, so the rest of
\* submit_job does not run.
WarnAndReturn(returned, continued) == returned

\* Lines 105-115: what submit_job decides on the rows job_table returned,
\* and the warnings it logs to the directory's logger.
Decision(existing_jobs, abs_path, resubmit) ==
  LET matching_jobs == MatchingJobs(existing_jobs, abs_path)
      active_jobs == ActiveJobs(matching_jobs)
      already == << Entry("WARNING", "is already", active_jobs[1].status) >>
  IN IF SkipsSubmission(active_jobs, resubmit)
     THEN WarnAndReturn([skip |-> TRUE, local |-> already],
                        [skip |-> FALSE, local |-> already])
     ELSE [skip |-> FALSE,
           local |-> CancelledWarning(matching_jobs, active_jobs, abs_path)]

\* Lines 140-144 and, in submit_job, lines 105-115: the SELECT of job_table
\* on the table as committed by now; job_table returns the rows, submit_job
\* decides on them and returns or goes on to sbatch.
Select(p) ==
  /\ inflight[p].pc = "select"
  /\ \E c \in {inflight[p]} :
       \E rows \in {Listing(jobs, c.parent_dir, c.filter)} :
         \E d \in {Decision(rows, Absolute(c.path), c.resubmit)} :
           IF c.op = "job_table" \/ d.skip
           THEN /\ inflight' = [inflight EXCEPT ![p] = Idle]
                /\ last' = Ended(p, [Report(c.op, c.parent_dir, c.path, c.jobname,
                                            c.resubmit, "", c.filter,
                                            IF c.op = "job_table" THEN "return" ELSE "skip",
                                            "none", 0, c.scontrol, 0,
                                            IF c.op = "job_table" THEN <<>> ELSE d.local,
                                            <<>>)
                                     EXCEPT !.rows = rows, !.updates = c.updates])
           ELSE /\ inflight' = [inflight EXCEPT ![p] =
                                  [c EXCEPT !.pc = "sbatch", !.rows = rows,
                                            !.local = d.local]]
                /\ last' = NoCall
  /\ UNCHANGED <<jobs, slurm, issued, made>>

\* Line 118: sbatch is started in abs_path and does its work at the
\* scheduler, which rejects the submission or queues the job under the next
\* job id.  The scheduler accepts a submission only while it has job ids
\* left and the table has room for the row.
Sbatch(p, sb) ==
  /\ inflight[p].pc = "sbatch"
  /\ sb.accepted => (issued < MaxJobs /\ Len(jobs) + Inserting < MaxRows)
  /\ slurm' = AfterSbatch(slurm, issued, sb, Absolute(inflight[p].path))
  /\ issued' = IF sb.accepted THEN issued + 1 ELSE issued
  /\ inflight' = [inflight EXCEPT ![p] =
                    [@ EXCEPT !.pc = "submitted",
                              !.result = Completed(IF sb.accepted THEN 0 ELSE 1,
                                                   SbatchStdout(sb, issued), "")]]
  /\ last' = NoCall
  /\ UNCHANGED <<jobs, made>>

\* Lines 118-122: sbatch has exited and its output is searched for the job
\* id; scontrol is started for it and reads the scheduler as it stands now.
\* Without a job id, subprocess.run at line 122 raises TypeError at once.
ShowJob(p) ==
  /\ inflight[p].pc = "submitted"
  /\ \E c \in {[inflight[p] EXCEPT !.jobid =
                    Search(inflight[p].result.stdout, "Submitted batch job")]} :
       IF c.jobid = NoneVal
       THEN Raises(p, [c EXCEPT !.result = NoResult], "TypeError", 1)
       ELSE /\ inflight' = [inflight EXCEPT ![p] =
                              [c EXCEPT !.pc = "shown", !.scontrol = @ + 1,
                                        !.result = Scontrol(slurm, c.jobid)]]
            /\ last' = NoCall
  /\ UNCHANGED <<jobs, slurm, issued, made>>

\* Lines 125-127: the row is inserted and the submission logged to both
\* loggers.
Insert(p, c, job_details) ==
  /\ jobs' = insert_job(jobs, c.parent_dir, job_details.jobid, c.jobname,
                        job_details.status,
                        StoredWorkDir(job_details, Absolute(c.path)))
  /\ inflight' = [inflight EXCEPT ![p] = Idle]
  /\ last' = Ended(p, [Report(c.op, c.parent_dir, c.path, c.jobname, c.resubmit,
                              c.jobid, c.filter, "done", "none", 1, c.scontrol, 0,
                              Append(c.local, Entry("INFO", "Submitted job", c.jobid)),
                              << Entry("INFO", "Submitted job", c.jobid) >>)
                       EXCEPT !.rows = c.rows, !.updates = c.updates])

\* Lines 122-127: scontrol has exited and what it had read is parsed; the
\* row is inserted, unless another process holds the write lock and the
\* INSERT has to wait.
Record(p) ==
  /\ inflight[p].pc = "shown"
  /\ \E c \in {inflight[p]} :
       \E job_details \in {parse_scontrol_output(c.result.stdout)} :
         IF job_details.raised # "none"
         THEN /\ jobs' = jobs
              /\ Raises(p, [c EXCEPT !.result = NoResult], job_details.raised, 1)
         ELSE IF Locked(p)
         THEN /\ jobs' = jobs
              /\ inflight' = [inflight EXCEPT ![p] = [c EXCEPT !.pc = "insert"]]
              /\ last' = NoCall
         ELSE Insert(p, c, job_details)
  /\ UNCHANGED <<slurm, issued, made>>

\* The write that had to wait (the UPDATE of line 181 or the INSERT of line
\* 73): it goes through once the lock is free, or the wait times out and
\* sqlite3 raises OperationalError, which rolls a refresh back.
WaitWrite(p, timeout) ==
  /\ inflight[p].pc \in {"update", "insert"}
  /\ timeout <=> Locked(p)
  /\ \E c \in {inflight[p]} :
       IF timeout
       THEN /\ jobs' = Rollback(jobs, c.updates, c.parent_dir)
            /\ Raises(p, [c EXCEPT !.result = NoResult], "OperationalError",
                      IF c.pc = "insert" THEN 1 ELSE 0)
       ELSE IF c.pc = "update"
       THEN Update(p, c, NewStatus(c.result).status)
       ELSE Insert(p, c, parse_scontrol_output(c.result.stdout))
  /\ UNCHANGED <<slurm, issued, made>>

\* Arguments of a direct call of the public insert_job: a job id (None, or
\* one the scheduler may hand out), a status and a working directory.
InsertArgs == [jobid : {NoneVal, "1"}, status : {"PENDING"}, workingdir : {"/jobs/b"}]

\* insert_job(jobid, db_jobname, status, workingdir) is called directly on a
\* manager of parent_dir in process p (lines 70-74): one INSERT, which waits
\* for the write lock like any other.
InsertJob(p, parent_dir, args, timeout) ==
  /\ inflight[p].pc = "idle"
  /\ LocalHandlers(p, parent_dir) > 0
  /\ timeout <=> Locked(p)
  /\ ~timeout => Len(jobs) + Inserting < MaxRows
  /\ jobs' = IF timeout THEN jobs
             ELSE insert_job(jobs, parent_dir, args.jobid, "relax", args.status,
                             args.workingdir)
  /\ last' = Ended(p, Report("insert_job", parent_dir, "", "relax", FALSE, args.jobid,
                             NoFilter, IF timeout THEN "raise" ELSE "return",
                             IF timeout THEN "OperationalError" ELSE "none",
                             0, 0, 0, <<>>, <<>>))
  /\ UNCHANGED <<slurm, issued, inflight, made>>

\* --------------------------------------------------------------- cancel
\* scancel <jobid>: exit code 0 for a job the scheduler knows (an active job
\* becomes CANCELLED), a non-zero exit code and an error text otherwise.
Scancel(sl, jobid) ==
  LET j == sl[jobid]
  IN CASE j.kind = "ok" ->
            [returncode |-> 0, stderr |-> "",
             slurm |-> IF IsActive(j.state)
                       THEN [sl EXCEPT ![jobid].state = "CANCELLED"] ELSE sl]
       [] j.kind = "invalid" -> [returncode |-> 1, stderr |-> ErrKill, slurm |-> sl]
       [] OTHER -> [returncode |-> 1, stderr |-> ErrController, slurm |-> sl]

\* Lines 154-159: the report of cancel_job on what scancel returned, one
\* logging call to each logger.  The jobs table is not touched.
cancel_job(result, parent_dir, slurm_jobid) ==
  LET Rep(local, global) ==
        [Report("cancel_job", parent_dir, "", "", FALSE, slurm_jobid, NoFilter,
                "return", "none", 0, 0, 1, local, global)
         EXCEPT !.returncode = result.returncode]
  IN IF result.returncode = 0
     THEN Rep(<< Entry("INFO", "Cancelled", slurm_jobid) >>,
              << Entry("INFO", "Cancelled", slurm_jobid) >>)
     ELSE Rep(<< Entry("ERROR", "Failed to cancel", result.stderr) >>,
              << Entry("ERROR", "Failed to cancel", result.stderr) >>)

\* cancel_job(slurm_jobid) is called on a manager of parent_dir in process
\* p (line 153): scancel is started and does its work at the scheduler.
CancelJob(p, parent_dir, slurm_jobid) ==
  /\ inflight[p].pc = "idle"
  /\ LocalHandlers(p, parent_dir) > 0
  /\ \E r \in {Scancel(slurm, slurm_jobid)} :
       /\ slurm' = r.slurm
       /\ inflight' = [inflight EXCEPT ![p] =
                         [Idle EXCEPT !.pc = "scancel", !.op = "cancel_job",
                                      !.parent_dir = parent_dir,
                                      !.jobid = slurm_jobid,
                                      !.result = Completed(r.returncode, <<>>, r.stderr)]]
  /\ last' = NoCall
  /\ UNCHANGED <<jobs, issued, made>>

\* Lines 153-159: scancel has exited, and cancel_job logs to both loggers
\* what it returned.
LogCancel(p) ==
  /\ inflight[p].pc = "scancel"
  /\ last' = Ended(p, cancel_job(inflight[p].result, inflight[p].parent_dir,
                                 inflight[p].jobid))
  /\ inflight' = [inflight EXCEPT ![p] = Idle]
  /\ UNCHANGED <<jobs, slurm, issued, made>>

\* ------------------------------------------------------- the scheduler
\* The scheduler moves on by itself: a job it has handed out changes state,
\* is purged, or its query starts or stops failing.
SlurmStep(jobid, answer) ==
  /\ slurm[jobid].workdir # ""
  /\ SlurmJob(answer, slurm[jobid].workdir) # slurm[jobid]
  /\ slurm' = [slurm EXCEPT ![jobid] = SlurmJob(answer, slurm[jobid].workdir)]
  /\ last' = NoCall
  /\ UNCHANGED <<jobs, issued, inflight, made>>

\* --------------------------------------------------- one process alone
\* The program as one process runs it on one manager: its calls follow one
\* another, and the scheduler moves while the call waits for a command.  The
\* jobs are submitted from a directory given by a relative path.
Next ==
  \/ \E d \in ParentDirs, path \in DOMAIN CwdJoin, n \in JobNames, r \in BOOLEAN :
       SubmitJob(Main, d, path, n, r)
  \/ \E d \in ParentDirs, f \in Filters : JobTable(Main, d, f)
  \/ \E d \in ParentDirs : RefreshJobStatus(Main, d)
  \/ Query(Main)
  \/ RefreshStep(Main)
  \/ Select(Main)
  \/ \E sb \in SbatchAnswers : Sbatch(Main, sb)
  \/ ShowJob(Main)
  \/ Record(Main)
  \/ \E d \in ParentDirs, a \in InsertArgs : InsertJob(Main, d, a, FALSE)
  \/ \E d \in ParentDirs, j \in JobIds : CancelJob(Main, d, j)
  \/ LogCancel(Main)
  \/ \E j \in JobIds, a \in Answers : SlurmStep(j, a)

Spec == Init /\ [][Next]_vars

\* ------------------------------------------------ submitting through a link
\* What the scheduler comes to answer about a job once it is queued.
LinkAnswers == [kind : {"ok"}, state : {"RUNNING", "CANCELLED"}]

\* One process, one manager: jobs are submitted from a directory given by a
\* relative path or through a symbolic link, without resubmit.
NextLinks ==
  \/ \E path \in SubmitPaths, n \in JobNames : SubmitJob(Main, "/jobs/a", path, n, FALSE)
  \/ Query(Main)
  \/ RefreshStep(Main)
  \/ Select(Main)
  \/ \E sb \in SbatchAnswers : Sbatch(Main, sb)
  \/ ShowJob(Main)
  \/ Record(Main)
  \/ \E j \in JobIds, a \in LinkAnswers : SlurmStep(j, a)

SpecLinks == Init /\ [][NextLinks]_vars

\* ------------------------------------------ a scheduler of mixed case
\* One process, one manager, and a scheduler whose JobState tokens are not
\* all in upper case.
NextCase ==
  \/ \E n \in JobNames : SubmitJob(Main, "/jobs/a", "b", n, TRUE)
  \/ \E f \in Filters : JobTable(Main, "/jobs/a", f)
  \/ Query(Main)
  \/ RefreshStep(Main)
  \/ Select(Main)
  \/ \E sb \in SbatchAnswers : Sbatch(Main, sb)
  \/ ShowJob(Main)
  \/ Record(Main)
  \/ \E j \in JobIds, a \in CaseAnswers : SlurmStep(j, a)

SpecCase == Init /\ [][NextCase]_vars

\* ------------------------------------------- one process, many managers
\* No manager is constructed yet.
InitManagers == Start([p \in Procs |-> [d \in ParentDirs |-> 0]])

\* One process constructs managers, on one directory or on both, and calls
\* them in turn; every manager writes to the same table.
NextManagers ==
  \/ \E d \in ParentDirs : Construct(Main, d)
  \/ \E d \in ParentDirs, n \in JobNames : SubmitJob(Main, d, "/jobs/a", n, FALSE)
  \/ \E d \in ParentDirs : JobTable(Main, d, NoFilter)
  \/ Query(Main)
  \/ RefreshStep(Main)
  \/ Select(Main)
  \/ \E sb \in SbatchAnswers : Sbatch(Main, sb)
  \/ ShowJob(Main)
  \/ Record(Main)
  \/ \E d \in ParentDirs : InsertJob(Main, d, [jobid |-> "1", status |-> "PENDING", workingdir |-> "/jobs/a"], FALSE)
  \/ \E d \in ParentDirs, j \in JobIds : CancelJob(Main, d, j)
  \/ LogCancel(Main)
  \/ \E j \in JobIds, a \in Answers : SlurmStep(j, a)

SpecManagers == InitManagers /\ [][NextManagers]_vars

\* ------------------------------------------------------- two processes
\* Two processes, each with one manager on /jobs/a.
InitRace == Start([p \in Procs |-> [d \in ParentDirs |->
                     IF d = "/jobs/a" THEN 1 ELSE 0]])

\* What the scheduler comes to answer while the two processes run.
RaceAnswers == [kind : {"ok"}, state : {"RUNNING", "CANCELLED"}]

\* The steps of the two processes' calls in any order: each process waits
\* in its subprocess calls while the other and the scheduler go on.
NextRace ==
  \/ \E p \in Procs, n \in JobNames : SubmitJob(p, "/jobs/a", "b", n, FALSE)
  \/ \E p \in Procs : RefreshJobStatus(p, "/jobs/a")
  \/ \E p \in Procs : Query(p)
  \/ \E p \in Procs : RefreshStep(p)
  \/ \E p \in Procs, timeout \in BOOLEAN : WaitWrite(p, timeout)
  \/ \E p \in Procs : Select(p)
  \/ \E p \in Procs, sb \in SbatchAnswers : Sbatch(p, sb)
  \/ \E p \in Procs : ShowJob(p)
  \/ \E p \in Procs : Record(p)
  \/ \E p \in Procs, timeout \in BOOLEAN :
       InsertJob(p, "/jobs/a", [jobid |-> "1", status |-> "PENDING", workingdir |-> "/jobs/a"], timeout)
  \/ \E j \in JobIds, a \in RaceAnswers : SlurmStep(j, a)

SpecRace == InitRace /\ [][NextRace]_vars
\* ====================================================================
\* Properties.  `last` describes the call that ended in the step just
\* taken, so a state predicate on it speaks of the table and scheduler right
\* after the call; last.rows is the listing the call took at line 104 or
\* returned, last.updates the statuses its refresh read from the scheduler.
\* What a command read is what the scheduler had when the command did its
\* work; by the time the call goes on with it the scheduler may have moved.

Max(S) == CHOOSE x \in S : \A y \in S : x >= y
\* The rows the call found in the table: all of them, less the one it added.
PriorIdx == IF last.op = "submit_job" /\ last.exit = "done"
            THEN 1..(Len(jobs) - 1) ELSE 1..Len(jobs)
\* Rows of the calling manager's directory.
OwnIdx == {i \in 1..Len(jobs) : jobs[i].parent_dir = last.parent_dir}
\* The absolute path a submit_job call was aimed at.
Target == Absolute(last.path)
\* A row that stands in the way of a new submission for the target.
Blocks(r, parent_dir, target) ==
  /\ r.parent_dir = parent_dir
  /\ r.workingdir = target
  /\ r.status \in {"RUNNING", "PENDING"}
\* The call is one of the two that only refresh (and list).
Refreshed == last.op \in {"job_table", "refresh_job_status"}
\* The calls that refresh: refresh_job_status, and job_table and submit_job
\* through it.
Refreshing(op) == op \in {"refresh_job_status", "job_table", "submit_job"}
\* The same rows, by id, in the same order.
SameRows(old, new) ==
  /\ Len(new) = Len(old)
  /\ \A i \in 1..Len(old) : new[i].id = old[i].id
\* A sink received an entry of the given level.
Logged(sink, level) == \E i \in 1..Len(sink) : sink[i].level = level
\* The skip warning of submit_job is in the directory's log.
SkipWarned(report) ==
  \E i \in 1..Len(report.local) : report.local[i].event = "is already"
\* The refresh asked the scheduler about the job id, and the status it read
\* for it (the latest, when it asked more than once).
Queried(updates, jobid) == \E k \in 1..Len(updates) : updates[k].jobid = jobid
StatusRead(updates, jobid) ==
  updates[Max({k \in 1..Len(updates) : updates[k].jobid = jobid})].status
\* The listing of the call holds an active row for the target.
ListedActive ==
  \E k \in 1..Len(last.rows) : Blocks(last.rows[k], last.parent_dir, Target)
\* What a refresh writes for a job when the scheduler answers: the state it
\* reports, or UNKNOWN for a job id it does not know.
Reported(sl, jobid) == IF sl[jobid].kind = "ok" THEN sl[jobid].state ELSE "UNKNOWN"
\* In this step the scontrol of process p's refresh, or of its submit_job,
\* does its work at the scheduler.
Asking(p) == inflight[p].pc = "refresh" /\ inflight'[p].pc = "queried"
Showing(p) == inflight[p].pc = "submitted" /\ inflight'[p].pc = "shown"
\* The JobState token in what the scontrol of process p read.
StateRead(c) == Search(c.result.stdout, "JobState")
\* In this step process p commits the refresh it was in, and the updates
\* the commit writes.
Committing(p) ==
  /\ inflight[p].pc \in {"queried", "update"}
  /\ \/ inflight'[p].pc = "select"
     \/ inflight'[p].pc = "idle" /\ last'.exit = "return"
Written(p) == IF inflight'[p].pc = "select" THEN inflight'[p].updates ELSE last'.updates
\* The updates of process p's refresh after the step.
UpdatesAfter(p) == IF inflight'[p].pc = "idle" THEN last'.updates ELSE inflight'[p].updates

\* C1: submit_job returns without running sbatch exactly when resubmit is
\* false and a row of the owner directory has the target as working directory
\* and status RUNNING or PENDING; in every other case it runs sbatch.
C1_SubmitDecisionTable ==
  last.op = "submit_job" =>
    LET blocked == /\ ~last.resubmit
                   /\ \E i \in PriorIdx : Blocks(jobs[i], last.parent_dir, Target)
    IN /\ (last.exit = "skip" /\ last.sbatch = 0) <=> blocked
       /\ ~blocked => last.sbatch = 1

\* C2 (as stated): a submit_job(D, resubmit=False) for a D that has an active
\* row makes no scheduler call of any kind and is skipped.
C2_NoSchedulerCallAtAll ==
  (/\ last.op = "submit_job"
   /\ ~last.resubmit
   /\ \E i \in PriorIdx : Blocks(jobs[i], last.parent_dir, Target))
  => (/\ last.exit = "skip"
      /\ last.sbatch + last.scontrol + last.scancel = 0)

\* C2 (amended): when the listing that submit_job(D, resubmit=False) takes
\* after its refresh holds an active row for D, the call runs neither sbatch
\* nor scancel, its scontrol calls are those of that refresh (one per row the
\* directory had when the refresh began), and it is skipped.
C2_SkipQueriesOnly ==
  (last.op = "submit_job" /\ ~last.resubmit /\ ListedActive)
  => (/\ last.exit = "skip"
      /\ last.sbatch = 0
      /\ last.scancel = 0
      /\ last.scontrol = Len(last.updates)
      /\ last.scontrol = Cardinality(OwnIdx))

\* A skipped submit_job that had rows to refresh, and so queried the scheduler.
C2_Witness ==
  /\ last.op = "submit_job"
  /\ last.exit = "skip"
  /\ last.scontrol = 2

\* C3: a submit_job(D, resubmit=True) for a D that has an active row runs
\* sbatch exactly once and is not skipped.
C3_ResubmitRunsSbatchOnce ==
  (/\ last.op = "submit_job"
   /\ last.resubmit
   /\ \E i \in PriorIdx : Blocks(jobs[i], last.parent_dir, Target))
  => (last.sbatch = 1 /\ last.exit # "skip")

\* C4: a submit_job that is skipped (it logged the skip warning) leaves the
\* table with the same rows, by id and number, as before: the step in which
\* it ends adds none, and rows are added only by the step that ends a
\* submit_job that submitted, or by a direct insert_job.
C4_SkipAddsNoRow ==
  [][/\ (last'.op = "submit_job" /\ SkipWarned(last')) => SameRows(jobs, jobs')
     /\ ~SameRows(jobs, jobs') =>
          \/ last'.op = "submit_job" /\ last'.exit = "done"
          \/ last'.op = "insert_job"]_vars

\* A skipped submit_job on a table that holds a row.
C4_Witness ==
  /\ last.op = "submit_job"
  /\ last.exit = "skip"
  /\ SkipWarned(last)
  /\ Len(jobs) >= 1

\* C5: when sbatch accepts the submission under job id J and the scheduler
\* reports status S for J to the call's scontrol, the call ends normally and
\* the table afterwards holds the rows it held plus one, with jobid J,
\* status S, the caller's jobname and the manager's parent_dir; until then
\* the call adds no row.
C5_SuccessAddsOneRow ==
  [][/\ (Showing(Main) /\ slurm[inflight'[Main].jobid].kind = "ok")
          => (/\ inflight'[Main].jobid = JobIdOf(issued)
              /\ StateRead(inflight'[Main]) = slurm[inflight'[Main].jobid].state)
     /\ (/\ inflight[Main].op = "submit_job"
         /\ inflight'[Main].op = "submit_job") => SameRows(jobs, jobs')
     /\ (/\ inflight[Main].pc = "shown"
         /\ inflight'[Main] # inflight[Main]
         /\ StateRead(inflight[Main]) # NoneVal)
        => (/\ last'.op = "submit_job"
            /\ last'.exit = "done"
            /\ last'.sbatch = 1
            /\ last'.jobid = inflight[Main].jobid
            /\ Len(jobs') = Len(jobs) + 1
            /\ \A i \in 1..Len(jobs) : jobs'[i].id = jobs[i].id
            /\ \A i \in 1..Len(jobs) : jobs'[Len(jobs')].id # jobs[i].id
            /\ jobs'[Len(jobs')].jobid = inflight[Main].jobid
            /\ jobs'[Len(jobs')].status = StateRead(inflight[Main])
            /\ jobs'[Len(jobs')].jobname = last'.jobname
            /\ jobs'[Len(jobs')].jobname = inflight[Main].jobname
            /\ jobs'[Len(jobs')].parent_dir = inflight[Main].parent_dir)]_vars

\* A successful submit_job that added a second row to the table.
C5_Witness ==
  /\ last.op = "submit_job"
  /\ last.exit = "done"
  /\ Len(jobs) = 2
  /\ jobs[2].jobid = last.jobid

\* C6: a submit_job whose sbatch output carries no job id adds no row (no
\* step of the call does, and it ends at line 122 with scontrol not run for
\* the new job); a row that a submit_job adds carries the job id sbatch
\* printed; and no row of the table ever has None as its jobid.
C6_FailedSubmissionAddsNoRow ==
  /\ [](\A i \in 1..Len(jobs) : jobs[i].jobid # NoneVal)
  /\ [][/\ (last'.op = "submit_job" /\ last'.sbatch = 1 /\ last'.jobid = NoneVal)
             => (SameRows(jobs, jobs') /\ last'.exit = "raise")
        /\ (/\ inflight[Main].pc = "submitted"
            /\ inflight[Main].result.stdout = <<>>
            /\ inflight'[Main] # inflight[Main])
           => (/\ last'.op = "submit_job"
               /\ last'.jobid = NoneVal
               /\ last'.scontrol = inflight[Main].scontrol
               /\ SameRows(jobs, jobs'))
        /\ (inflight[Main].op = "submit_job" /\ ~SameRows(jobs, jobs'))
           => (/\ last'.exit = "done"
               /\ Len(jobs') = Len(jobs) + 1
               /\ jobs'[Len(jobs')].jobid = last'.jobid
               /\ last'.jobid \in JobIds)]_vars

\* A submit_job whose sbatch was rejected ended, on a table that holds a
\* row: the row count is what it was.
C6_Witness ==
  /\ last.op = "submit_job"
  /\ last.sbatch = 1
  /\ last.jobid = NoneVal
  /\ last.raised = "TypeError"
  /\ Len(jobs) >= 1

\* C7: a submission that fails (no job id in sbatch's output) and a
\* cancellation that fails (non-zero exit code) write an entry to both logs
\* and end without raising.
C7_FailuresLoggedNotRaised ==
  (\/ last.op = "submit_job" /\ last.sbatch = 1 /\ last.jobid = NoneVal
   \/ last.op = "cancel_job" /\ last.returncode # 0)
  => (/\ last.raised = "none"
      /\ Logged(last.local, "ERROR")
      /\ Logged(last.global, "ERROR"))

\* C8: after a refresh every row of the owner directory whose job the
\* scheduler knows has the status the scheduler reported for it, and no
\* step changes another field of a row.
C8_RefreshPostcondition ==
  /\ [](Refreshed =>
          \A i \in OwnIdx :
            (/\ Queried(last.updates, jobs[i].jobid)
             /\ StatusRead(last.updates, jobs[i].jobid) # "UNKNOWN")
            => jobs[i].status = StatusRead(last.updates, jobs[i].jobid))
  /\ [][\A i \in 1..Len(jobs) :
          /\ jobs'[i].id = jobs[i].id
          /\ jobs'[i].parent_dir = jobs[i].parent_dir
          /\ jobs'[i].jobid = jobs[i].jobid
          /\ jobs'[i].jobname = jobs[i].jobname
          /\ jobs'[i].workingdir = jobs[i].workingdir]_vars

\* C9: a refresh over a row whose job id the scheduler does not know ends
\* without an error and leaves that row UNKNOWN (so that a second refresh,
\* the id still unknown, finds the table as the first left it).
C9_UnknownAbsorbed ==
  Refreshed =>
    \A i \in OwnIdx :
      (/\ Queried(last.updates, jobs[i].jobid)
       /\ StatusRead(last.updates, jobs[i].jobid) = "UNKNOWN")
      => (last.raised = "none" /\ jobs[i].status = "UNKNOWN")

\* C10: when the query for one row of the owner directory fails, the refresh
\* still brings every other row of that directory to the status the
\* scheduler gave for it.
C10_FailureIsolated ==
  (Refreshed /\ last.raised = "AttributeError") =>
    /\ Len(last.updates) = Cardinality(OwnIdx) - 1
    /\ \A k \in 1..Len(last.updates) :
         \A i \in OwnIdx :
           jobs[i].jobid = last.updates[k].jobid =>
             jobs[i].status = StatusRead(last.updates, jobs[i].jobid)

\* The rows of a directory with a status among `wanted`, in id order.
RowsWith(tbl, parent_dir, Wanted(_)) ==
  SelectSeq(tbl, LAMBDA r : r.parent_dir = parent_dir /\ Wanted(r.status))

\* C11 (as stated): job_table(status) returns exactly the rows of the owner
\* directory whose status equals the filter when both are compared without
\* regard to case; job_table() returns all rows of the owner directory.
C11_FilterIgnoresCase ==
  (last.op = "job_table" /\ last.exit = "return") =>
    last.rows = RowsWith(jobs, last.parent_dir,
                         LAMBDA st : last.filter = NoFilter \/ Upper(st) = Upper(last.filter))

\* C11 (amended): job_table(status) returns exactly the rows of the owner
\* directory whose status, as stored, equals the filter turned to upper
\* case; job_table() returns all rows of the owner directory.
C11_FilterUpperCased ==
  (last.op = "job_table" /\ last.exit = "return") =>
    last.rows = RowsWith(jobs, last.parent_dir,
                         LAMBDA st : last.filter = NoFilter \/ st = Upper(last.filter))

\* A job_table("running") that returned a RUNNING row and left out a row of
\* the same directory whose status is Running.
C11_Witness ==
  /\ last.op = "job_table"
  /\ last.filter = "running"
  /\ Len(last.rows) = 1
  /\ last.rows[1].status = "RUNNING"
  /\ \E i \in OwnIdx : jobs[i].status = "Running"

\* C12: a row once in the table is in it ever after under the same id: no
\* step removes a row or changes an id, a new row gets an id no row has, and
\* no two rows ever share an id.
C12_AppendOnly ==
  /\ [](\A i, k \in 1..Len(jobs) : jobs[i].id = jobs[k].id => i = k)
  /\ [][/\ Len(jobs') >= Len(jobs)
        /\ \A i \in 1..Len(jobs) : jobs'[i].id = jobs[i].id
        /\ \A k \in (Len(jobs) + 1)..Len(jobs') :
             \A i \in 1..Len(jobs) : jobs'[k].id # jobs[i].id]_vars

\* A cancel_job the scheduler accepted, with both rows still in the table,
\* one of them for a job the scheduler no longer knows.
C12_Witness ==
  /\ last.op = "cancel_job"
  /\ Logged(last.local, "INFO")
  /\ Len(jobs) = 2
  /\ jobs[1].id = 1 /\ jobs[2].id = 2
  /\ \E i \in 1..2 : jobs[i].status = "UNKNOWN"

\* C13: no step of cancel_job changes a row; the status of a row changes
\* only in the commit of a refresh of the row's directory, and then to what
\* that refresh read from the scheduler for the row's job: each update of a
\* refresh carries the status its scontrol read, which is the state the
\* scheduler reported when scontrol asked (UNKNOWN for an id it does not
\* know); and a refresh that returns leaves every row of the directory with
\* what it read.
C13_OnlyRefreshWritesStatus ==
  /\ [][/\ (inflight[Main].op = "cancel_job" \/ inflight'[Main].op = "cancel_job")
             => jobs' = jobs
        /\ \A i \in 1..Len(jobs) :
             jobs'[i].status # jobs[i].status =>
               \E p \in Procs :
                 /\ Committing(p)
                 /\ jobs[i].parent_dir = inflight[p].parent_dir
                 /\ Queried(Written(p), jobs[i].jobid)
                 /\ jobs'[i].status = StatusRead(Written(p), jobs[i].jobid)
        /\ \A p \in Procs :
             (Asking(p) /\ slurm[inflight[p].jobids[Len(inflight[p].updates) + 1]].kind # "error")
             => NewStatus(inflight'[p].result).status =
                  Reported(slurm, inflight[p].jobids[Len(inflight[p].updates) + 1])
        /\ \A p \in Procs :
             (/\ inflight[p].pc = "queried"
              /\ Len(UpdatesAfter(p)) = Len(inflight[p].updates) + 1)
             => LET u == UpdatesAfter(p)[Len(UpdatesAfter(p))]
                IN /\ u.jobid = inflight[p].jobids[Len(inflight[p].updates) + 1]
                   /\ u.status = IF StateRead(inflight[p]) = NoneVal
                                 THEN "UNKNOWN" ELSE StateRead(inflight[p])]_vars
  /\ []((Refreshed /\ last.exit = "return") =>
          \A i \in OwnIdx : /\ Queried(last.updates, jobs[i].jobid)
                            /\ jobs[i].status = StatusRead(last.updates, jobs[i].jobid))

\* A cancel_job the scheduler accepted: the scheduler has the job as
\* CANCELLED while its row still shows the status stored before.
C13_Witness ==
  /\ last.op = "cancel_job"
  /\ Logged(last.global, "INFO")
  /\ slurm[last.jobid].state = "CANCELLED"
  /\ \E i \in 1..Len(jobs) : jobs[i].jobid = last.jobid /\ jobs[i].status = "RUNNING"

\* C14: a submit_job that submitted, a submit_job that was skipped, and a
\* cancel_job (accepted or refused by the scheduler) each append exactly one
\* entry to the directory's log and exactly one to the global log.
C14_OneEntryPerSink ==
  (\/ last.op = "submit_job" /\ last.exit \in {"done", "skip"}
   \/ last.op = "cancel_job")
  => (Len(last.local) = 1 /\ Len(last.global) = 1)

\* C15: the calls of the manager of one directory change no row of another
\* directory (a row changes only in the commit of a refresh of its own
\* directory), return no row of another directory, and a submit_job is
\* skipped only on account of an active row of its own directory.
C15_OwnerPartition ==
  /\ [][\A i \in 1..Len(jobs) :
          jobs'[i] # jobs[i] =>
            \E p \in Procs : Committing(p) /\ inflight[p].parent_dir = jobs[i].parent_dir]_vars
  /\ [](\A k \in 1..Len(last.rows) : last.rows[k].parent_dir = last.parent_dir)
  /\ []((last.op = "submit_job" /\ last.exit = "skip") =>
          \E i \in 1..Len(jobs) : Blocks(jobs[i], last.parent_dir, Target))

\* A submit_job that went through although another directory's manager has
\* an active row for the same working directory.
C15_Witness ==
  /\ last.op = "submit_job"
  /\ last.exit = "done"
  /\ ~last.resubmit
  /\ \E i \in PriorIdx : /\ jobs[i].parent_dir # last.parent_dir
                          /\ jobs[i].workingdir = Target
                          /\ jobs[i].status \in {"RUNNING", "PENDING"}
                          /\ jobs[i].jobid \in JobIds
                          /\ slurm[jobs[i].jobid].state = jobs[i].status

\* C16: with two processes on one directory, a submit_job(D, resubmit=False)
\* whose listing held no active row for D runs sbatch and inserts its row
\* whatever the other process has inserted since that listing: nothing is
\* locked between the listing and the insert, and the rows listed are still
\* there.  (That both processes get there is C16_Witness.)
C16_DoubleSubmission ==
  (last.op = "submit_job" /\ last.exit = "done" /\ ~last.resubmit) =>
    /\ ~ListedActive
    /\ last.sbatch = 1
    /\ Len(jobs) >= 1
    /\ jobs[Len(jobs)].jobid = last.jobid
    /\ jobs[Len(jobs)].parent_dir = last.parent_dir
    /\ \A k \in 1..Len(last.rows) : \E i \in PriorIdx : jobs[i].id = last.rows[k].id

\* The interleaving of C16: the second of two submit_job calls for D ends,
\* having listed the table before the first inserted; both ran sbatch and
\* the table holds two active rows for D.
C16_Witness ==
  /\ last.op = "submit_job" /\ last.exit = "done" /\ ~last.resubmit
  /\ last.rows = <<>>
  /\ issued = 2
  /\ Len(jobs) = 2
  /\ {jobs[1].jobid, jobs[2].jobid} = {"1", "2"}
  /\ \A i \in 1..2 : Blocks(jobs[i], last.parent_dir, Target)

\* C17: the row a successful submit_job adds carries the WorkDir the
\* scheduler reports for the new job, whatever path the caller gave; and a
\* submit_job(D, resubmit=False) is skipped only when an active row of the
\* directory has exactly str(abs_path) as its stored working directory.
C17_StoredWorkDirIsEcho ==
  /\ (last.op = "submit_job" /\ last.exit = "done")
       => jobs[Len(jobs)].workingdir = slurm[last.jobid].workdir
  /\ (last.op = "submit_job" /\ last.exit = "skip")
       => \E k \in 1..Len(last.rows) :
            /\ last.rows[k].workingdir = Target
            /\ last.rows[k].status \in {"RUNNING", "PENDING"}
            /\ \E i \in OwnIdx : jobs[i] = last.rows[k]

\* A submit_job through a symbolic link that went through with resubmit off
\* although the job of an earlier submit through the same link is active:
\* the scheduler echoed the directory the link leads to, not the link.
C17_Witness ==
  /\ last.op = "submit_job"
  /\ last.exit = "done"
  /\ ~last.resubmit
  /\ Target # WorkDirOf(Target)
  /\ jobs[Len(jobs)].workingdir = WorkDirOf(Target)
  /\ \E i \in PriorIdx : /\ jobs[i].parent_dir = last.parent_dir
                          /\ jobs[i].workingdir = WorkDirOf(Target)
                          /\ jobs[i].status \in {"RUNNING", "PENDING"}
                          /\ jobs[i].jobid \in JobIds
                          /\ slurm[jobs[i].jobid].state = jobs[i].status

\* A row the call found for the target for which its refresh read RUNNING
\* or PENDING from the scheduler.
ReadActive(i) ==
  /\ jobs[i].parent_dir = last.parent_dir
  /\ jobs[i].workingdir = Target
  /\ Queried(last.updates, jobs[i].jobid)
  /\ StatusRead(last.updates, jobs[i].jobid) \in {"RUNNING", "PENDING"}

\* C18: submit_job(D, resubmit=False) decides on the statuses its refresh
\* reads from the scheduler, not on the stored ones: once the refresh is
\* through, every row of the directory has been asked about, and the call is
\* skipped exactly when the scheduler gave RUNNING or PENDING for a row for D.
C18_DecisionOnReconciledState ==
  (last.op = "submit_job" /\ ~last.resubmit /\ (last.exit = "skip" \/ last.sbatch = 1)) =>
    /\ last.exit = "skip" <=> \E i \in PriorIdx : ReadActive(i)
    /\ Len(last.updates) = Cardinality(PriorIdx \cap OwnIdx)

\* A submit_job that went through with resubmit off although the table has
\* a row for the target: the scheduler no longer has that job as active.
C18_Witness ==
  /\ last.op = "submit_job"
  /\ last.exit = "done"
  /\ ~last.resubmit
  /\ \E i \in PriorIdx : /\ jobs[i].parent_dir = last.parent_dir
                          /\ jobs[i].workingdir = Target
                          /\ jobs[i].status \in {"CANCELLED", "UNKNOWN"}

\* C19: refresh_job_status commits its updates together after the last
\* query: no step changes the table while the refresh is still under way;
\* when a query or its parsing raises, the call (and the job_table or
\* submit_job that made it) ends with that exception and every row is as it
\* was; and statuses change only when every row of the directory has been
\* asked about.
C19_RefreshAllOrNothing ==
  [][/\ inflight'[Main].pc \in {"refresh", "queried"} => jobs' = jobs
     /\ (Refreshing(last'.op) /\ last'.exit = "raise" /\ last'.sbatch = 0) => jobs' = jobs
     /\ (/\ inflight[Main].pc = "queried"
         /\ inflight'[Main] # inflight[Main]
         /\ inflight[Main].result.stderr # ErrInvalidJobId
         /\ StateRead(inflight[Main]) = NoneVal)
        => (/\ last'.op = inflight[Main].op
            /\ last'.exit = "raise"
            /\ last'.raised = "AttributeError")
     /\ (/\ inflight[Main].pc = "refresh"
         /\ inflight'[Main] # inflight[Main]
         /\ inflight[Main].jobids[Len(inflight[Main].updates) + 1] = NoneVal)
        => (/\ last'.op = inflight[Main].op
            /\ last'.exit = "raise"
            /\ last'.raised = "TypeError")
     /\ (\E i \in 1..Len(jobs) : jobs'[i].status # jobs[i].status) =>
          \E p \in Procs : Committing(p) /\ Len(Written(p)) = Len(inflight[p].jobids)]_vars

\* A job_table that raised at its second query: the first row's update was
\* computed and then rolled back, so the row does not show the status read.
C19_Witness ==
  /\ last.op = "job_table"
  /\ last.raised = "AttributeError"
  /\ Len(last.updates) = 1
  /\ \E i \in OwnIdx : /\ jobs[i].jobid = last.updates[1].jobid
                        /\ jobs[i].status # last.updates[1].status

\* The active rows for the target in the listing of the call.
BlockingIdx == {k \in 1..Len(last.rows) : Blocks(last.rows[k], last.parent_dir, Target)}

\* C20: the skip warning of submit_job names the status of the active row
\* for the target that has the smallest id.
C20_WarningNamesFirstActive ==
  (last.op = "submit_job" /\ last.exit = "skip") =>
    /\ BlockingIdx # {}
    /\ \A k \in BlockingIdx : last.rows[Min(BlockingIdx)].id <= last.rows[k].id
    /\ last.local # <<>>
    /\ \A n \in 1..Len(last.local) :
         last.local[n] = Entry("WARNING", "is already", last.rows[Min(BlockingIdx)].status)

\* A skipped submit_job with two active rows for the target, the older
\* PENDING and the newer RUNNING: the warning names PENDING.
C20_Witness ==
  /\ last.op = "submit_job"
  /\ last.exit = "skip"
  /\ BlockingIdx = {1, 2}
  /\ last.rows[1].status = "PENDING"
  /\ last.rows[2].status = "RUNNING"
  /\ last.local[1].detail = "PENDING"
====
